---- MODULE Spec2Model ----
(***************************************************************************)
(* Core/MemoryManager.js of roBrowserLegacy: the asset cache (get, set,    *)
(* exist, clean, remove, search, updateAccessTime).                        *)
(*                                                                         *)
(* The source file holds two module definitions of the manager:            *)
(*   - lines 13-241, the pooled one: MemoryItem instances are recycled     *)
(*     through _memoryItemPool, get() records Date.now() in                *)
(*     _lastAccessTime, clean() collects keysToDelete before removing;     *)
(*   - lines 255-460, the plain one: no pool, get() records nothing,       *)
(*     clean() removes while iterating the Map, updateAccessTime() is      *)
(*     exported.                                                           *)
(* The pooled module never declares _lastAccessTime (the declaration of    *)
(* line 284 is local to the other module's function). A free identifier    *)
(* resolves through the enclosing scopes: either the environment binds it  *)
(* to a Map, or every evaluation of it throws a ReferenceError. Both       *)
(* outcomes are modelled; the variable `variant` picks one of the three    *)
(* builds at Init and never changes.                                       *)
(*                                                                         *)
(* Core/MemoryItem is not part of the sources at hand: the operators       *)
(* Item* below follow the CacheEntry contract of the specification.        *)
(***************************************************************************)
EXTENDS Integers, Sequences, FiniteSets, TLC

VARIABLES
    variant,            \* which build runs: "pooled", "pooled_unbound", "plain"
    _memory,            \* Map filename -> MemoryItem, in insertion order
    _memoryItemPool,    \* MemoryItem[] (pooled builds)
    heap,               \* the MemoryItem instances, by identity
    _lastAccessTime,    \* Map filename -> time (Absent: no entry)
    _lastCheckTick,     \* last time clean() went through
    glTextures,         \* WebGL context: the handles for which isTexture is true
    glInvalid,          \* gl.deleteTexture was called on a handle that was not live
    listeners,          \* the callbacks handed to get(), and how they were called
    last                \* the last call: what it was and what it did

vars == <<variant, _memory, _memoryItemPool, heap, _lastAccessTime,
          _lastCheckTick, glTextures, glInvalid, listeners, last>>

---------------------------------------------------------------------------
(* Bounds of the model *)

\* clean(gl, now) is called with now in {0, 30000, ..., MaxTick * 30000}
MaxTick == 5
\* Date.now() and updateAccessTime's time are in {0, ..., MaxDate * 30000}
MaxDate == 1
\* number of get() calls that pass callbacks
MaxListeners == 2

---------------------------------------------------------------------------
(* Program constants *)

_rememberTime == 2 * 60 * 1000

_cleanUpInterval == 30 * 1000

Variants == {"pooled", "pooled_unbound", "plain"}

\* the pooled module: lines 13-241
Pooled == variant \in {"pooled", "pooled_unbound"}

\* whether the identifier _lastAccessTime resolves when it is evaluated
LastAccessBound == variant # "pooled_unbound"

NowTimes == {i * _cleanUpInterval : i \in 0..MaxTick}

DateTimes == {i * _cleanUpInterval : i \in 0..MaxDate}

\* Map.get() of a missing key: undefined
Absent == -1

---------------------------------------------------------------------------
(* Filenames: strings, as sequences of characters *)

ASpr == <<"a", ".", "s", "p", "r">>

BPal == <<"b", ".", "p", "a", "l">>

CDat == <<"c", ".", "d", "a", "t">>

Keys == {ASpr, BPal, CDat}

ToLowerChar(c) ==
    CASE c = "S" -> "s" [] c = "P" -> "p" [] c = "R" -> "r"
      [] c = "A" -> "a" [] c = "L" -> "l" [] c = "D" -> "d" [] c = "T" -> "t"
      [] OTHER -> c

\* filename.match(/\.[^\.]+$/): the index of the last "." when at least one
\* character follows it, 0 when nothing matches
LastDot(filename) ==
    LET dots == {i \in DOMAIN filename : filename[i] = "."}
    IN  IF dots = {} THEN 0
        ELSE LET d == CHOOSE i \in dots : \A j \in dots : j <= i
             IN  IF d < Len(filename) THEN d ELSE 0

\* ext = matches ? matches.toString().toLowerCase() : ''
Ext(filename) ==
    LET d == LastDot(filename)
    IN  IF d = 0 THEN <<>>
        ELSE [i \in 1..(Len(filename) - d + 1) |-> ToLowerChar(filename[d + i - 1])]

ExtSpr == <<".", "s", "p", "r">>

ExtPal == <<".", "p", "a", "l">>

---------------------------------------------------------------------------
(* Payloads handed to set(): a falsy value, two objects that carry texture *)
(* handles, a blob URL string                                              *)

NoTexture == 0

Handles == {1, 2}

Payloads == {"null", "sprite", "palette", "blob:x"}

\* !data is false
Truthy(data) == data # "null"

\* file.frames, as the sequence of file.frames[i].texture
Frames(file) == IF file = "sprite" THEN <<1, 1, NoTexture>> ELSE <<>>

\* file.texture
Texture(file) ==
    CASE file = "sprite" -> 2 [] file = "palette" -> 1 [] OTHER -> NoTexture

\* file.match && file.match(/^blob\:/)
MatchesBlob(file) == file = "blob:x"

---------------------------------------------------------------------------
(* Core/MemoryItem: one slot. Pending until set() resolves it; the load    *)
(* and error callbacks wait in registration order and the lists are        *)
(* emptied when the slot is resolved.                                      *)

NoItem == 0

ItemIds == 1..Cardinality(Keys)

ListenerIds == 1..MaxListeners

FreshItem == [state |-> "Pending", data |-> "null", onload |-> <<>>, onerror |-> <<>>]

\* item.complete
ItemComplete(item) == item.state # "Pending"

\* item.reset()
ItemReset(item) == FreshItem

\* a callback handed to get(): the call that passed it (filename, the state
\* of the slot at that call, which of onload / onerror were given), whether
\* its slot was removed since, and the calls it received
NoListener ==
    [filename |-> <<>>, at |-> "none", onload |-> FALSE, onerror |-> FALSE,
     dropped |-> FALSE, load |-> 0, error |-> 0, data |-> "null"]

Range(seq) == {seq[i] : i \in DOMAIN seq}

\* the callbacks of `ids` are invoked: onload(data) or onerror(data)
Invoke(ls, ids, event, data) ==
    [n \in DOMAIN ls |->
        IF n \notin ids THEN ls[n]
        ELSE IF event = "load"
             THEN [ls[n] EXCEPT !.load = @ + 1, !.data = data]
             ELSE [ls[n] EXCEPT !.error = @ + 1]]

\* item.addEventListener(event, callback): a resolved slot answers at once
\* with its outcome, a pending one queues the callback
ItemAddEventListener(st, id, event, n) ==
    LET item == st.heap[id]
    IN  IF ~ItemComplete(item)
        THEN IF event = "load"
             THEN [st EXCEPT !.heap[id].onload = Append(@, n)]
             ELSE [st EXCEPT !.heap[id].onerror = Append(@, n)]
        ELSE IF event = "load" /\ item.state = "Loaded"
             THEN [st EXCEPT !.listeners = Invoke(@, {n}, "load", item.data)]
        ELSE IF event = "error" /\ item.state = "Error"
             THEN [st EXCEPT !.listeners = Invoke(@, {n}, "error", item.data)]
        ELSE st

\* item.onload(data): Loaded, every waiting load callback is called with data
ItemOnload(st, id, data) ==
    LET item == st.heap[id]
    IN  [st EXCEPT
            !.heap[id] = [state |-> "Loaded", data |-> data,
                          onload |-> <<>>, onerror |-> <<>>],
            !.listeners = Invoke(@, Range(item.onload), "load", data)]

\* item.onerror(error): Error, every waiting error callback is called
ItemOnerror(st, id, error) ==
    LET item == st.heap[id]
    IN  [st EXCEPT
            !.heap[id] = [state |-> "Error", data |-> item.data,
                          onload |-> <<>>, onerror |-> <<>>],
            !.listeners = Invoke(@, Range(item.onerror), "error", error)]

---------------------------------------------------------------------------
(* The Map _memory: a sequence of entries [filename, item] in insertion    *)
(* order                                                                   *)

MapHas(m, filename) == \E i \in DOMAIN m : m[i].filename = filename

MapGet(m, filename) ==
    IF MapHas(m, filename)
    THEN (CHOOSE e \in Range(m) : e.filename = filename).item
    ELSE NoItem

MapSet(m, filename, id) ==
    IF MapHas(m, filename)
    THEN [i \in DOMAIN m |->
            IF m[i].filename = filename THEN [m[i] EXCEPT !.item = id] ELSE m[i]]
    ELSE Append(m, [filename |-> filename, item |-> id])

MapDelete(m, filename) == SelectSeq(m, LAMBDA e : e.filename # filename)

MapKeys(m) == {m[i].filename : i \in DOMAIN m}

\* the state the operations read and write, as one record
Store ==
    [memory |-> _memory, pool |-> _memoryItemPool, heap |-> heap,
     lat |-> _lastAccessTime, gl |-> glTextures, invalid |-> glInvalid,
     listeners |-> listeners, removed |-> <<>>, released |-> <<>>, revoked |-> <<>>]

Commit(st) ==
    /\ _memory' = st.memory
    /\ _memoryItemPool' = st.pool
    /\ heap' = st.heap
    /\ _lastAccessTime' = st.lat
    /\ glTextures' = st.gl
    /\ glInvalid' = st.invalid
    /\ listeners' = st.listeners

\* new MemoryItem(): an instance nothing refers to
NewItem(st) ==
    CHOOSE id \in ItemIds :
        /\ id \notin {st.memory[i].item : i \in DOMAIN st.memory} \cup Range(st.pool)
        /\ \A other \in ItemIds :
              other \notin {st.memory[i].item : i \in DOMAIN st.memory} \cup Range(st.pool)
                 => id <= other

\* a slip: the last item of the pool is read but not popped
CreateSlotPeek(st, filename) ==
    IF Pooled /\ Len(st.pool) > 0
    THEN LET id == st.pool[Len(st.pool)]
         IN  [st EXCEPT !.heap[id] = ItemReset(@),
                        !.memory = MapSet(@, filename, id)]
    ELSE LET id == NewItem(st)
         IN  [st EXCEPT !.heap[id] = FreshItem,
                        !.memory = MapSet(@, filename, id)]

\* "Not in memory yet, create slot"
CreateSlot(st, filename) ==
    IF Pooled /\ Len(st.pool) > 0
    THEN LET id == st.pool[Len(st.pool)]
         IN  [st EXCEPT !.pool = SubSeq(@, 1, Len(@) - 1),
                        !.heap[id] = ItemReset(@),
                        !.memory = MapSet(@, filename, id)]
    ELSE LET id == NewItem(st)
         IN  [st EXCEPT !.heap[id] = FreshItem,
                        !.memory = MapSet(@, filename, id)]

\* var item = _memory.get(filename); if (!item) { ... create slot ... }
Slot(st, filename) ==
    IF MapGet(st.memory, filename) = NoItem THEN CreateSlot(st, filename) ELSE st

\* what a call did: its outcome, whether it threw, the filenames it removed
\* from memory, the handles it passed to gl.deleteTexture and the URLs it
\* passed to URL.revokeObjectURL, in order
Call(op, result, raised, now, st) ==
    [op |-> op, result |-> result, raised |-> raised, now |-> now,
     removed |-> st.removed, released |-> st.released, revoked |-> st.revoked]

\* the first callback identity not yet used
NextListener ==
    IF \E n \in ListenerIds : listeners[n] = NoListener
    THEN CHOOSE n \in ListenerIds :
            listeners[n] = NoListener /\ \A k \in ListenerIds : listeners[k] = NoListener => n <= k
    ELSE MaxListeners + 1

\* get() of the pooled module ends with _lastAccessTime.set(filename, Date.now())
\* (which throws when the identifier is unbound); the plain module's get()
\* does not record the access
RecordAccess(st, filename, t) ==
    IF variant = "pooled" THEN [st EXCEPT !.lat[filename] = t] ELSE st

\* a slip: the two event names are exchanged
GetResultSwapped(st0, filename, onload, onerror, t) ==
    LET n   == NextListener
        st1 == Slot(st0, filename)
        id  == MapGet(st1.memory, filename)
        st2 == IF onload \/ onerror
               THEN [st1 EXCEPT !.listeners[n] =
                        [NoListener EXCEPT !.filename = filename,
                                           !.at = st1.heap[id].state,
                                           !.onload = onload,
                                           !.onerror = onerror]]
               ELSE st1
        st3 == IF onload THEN ItemAddEventListener(st2, id, "error", n) ELSE st2
        st4 == IF onerror THEN ItemAddEventListener(st3, id, "load", n) ELSE st3
    IN  RecordAccess(st4, filename, t)

\* a slip: the second registration passes onload again, as a load callback
GetResultLoadTwice(st0, filename, onload, onerror, t) ==
    LET n   == NextListener
        st1 == Slot(st0, filename)
        id  == MapGet(st1.memory, filename)
        st2 == IF onload \/ onerror
               THEN [st1 EXCEPT !.listeners[n] =
                        [NoListener EXCEPT !.filename = filename,
                                           !.at = st1.heap[id].state,
                                           !.onload = onload,
                                           !.onerror = onerror]]
               ELSE st1
        st3 == IF onload THEN ItemAddEventListener(st2, id, "load", n) ELSE st2
        st4 == IF onerror THEN ItemAddEventListener(st3, id, "load", n) ELSE st3
    IN  RecordAccess(st4, filename, t)

GetResult(st0, filename, onload, onerror, t) ==
    LET n   == NextListener
        st1 == Slot(st0, filename)
        id  == MapGet(st1.memory, filename)
        st2 == IF onload \/ onerror
               THEN [st1 EXCEPT !.listeners[n] =
                        [NoListener EXCEPT !.filename = filename,
                                           !.at = st1.heap[id].state,
                                           !.onload = onload,
                                           !.onerror = onerror]]
               ELSE st1
        st3 == IF onload THEN ItemAddEventListener(st2, id, "load", n) ELSE st2
        st4 == IF onerror THEN ItemAddEventListener(st3, id, "error", n) ELSE st3
    IN  RecordAccess(st4, filename, t)

get(filename, onload, onerror, t) ==
    /\ (onload \/ onerror) => NextListener <= MaxListeners
    /\ Commit(GetResult(Store, filename, onload, onerror, t))
    /\ last' = Call("get", IF MapHas(_memory, filename) THEN "found" ELSE "created",
                    ~LastAccessBound, 0, Store)
    /\ UNCHANGED <<variant, _lastCheckTick>>

\* a slip: the payload is asked, as in "return !!_memory.get(filename).data"
existLoaded(filename) ==
    /\ MapHas(_memory, filename)
    /\ Truthy(heap[MapGet(_memory, filename)].data)

\* return _memory.has(filename)
exist(filename) == MapHas(_memory, filename)

\* a slip: the negation of data is lost
HasErrorInverted(data, error) == error \/ Truthy(data)

\* a slip: only the error argument decides
HasErrorFlagOnly(data, error) == error

\* var hasError = error || !data
HasError(data, error) == error \/ ~Truthy(data)

SetResult(st0, filename, data, error) ==
    LET st1 == Slot(st0, filename)
        id  == MapGet(st1.memory, filename)
    IN  IF HasError(data, error)
        THEN ItemOnerror(st1, id, data)
        ELSE ItemOnload(st1, id, data)

set(filename, data, error) ==
    /\ Commit(SetResult(Store, filename, data, error))
    /\ last' = Call("set", IF MapHas(_memory, filename) THEN "found" ELSE "created",
                    FALSE, 0, Store)
    /\ UNCHANGED <<variant, _lastCheckTick>>

---------------------------------------------------------------------------
(* remove(gl, filename): releases what the payload holds, by the           *)
(* extension of the filename, then drops the slot                          *)

\* gl.isTexture(texture)
IsTexture(gl, texture) == texture \in gl

\* gl.deleteTexture(texture)
DeleteTexture(st, texture) ==
    [st EXCEPT !.invalid = @ \/ ~IsTexture(st.gl, texture),
               !.gl = @ \ {texture},
               !.released = Append(@, texture)]

\* a slip: the handle is deleted without asking gl.isTexture
ReleaseTextureUnchecked(st, texture) ==
    IF texture # NoTexture THEN DeleteTexture(st, texture) ELSE st

\* if (texture && gl.isTexture(texture)) { gl.deleteTexture(texture); }
ReleaseTexture(st, texture) ==
    IF texture # NoTexture /\ IsTexture(st.gl, texture)
    THEN DeleteTexture(st, texture)
    ELSE st

RECURSIVE ReleaseFrames(_, _, _)
\* for (i = 0; i < file.frames.length; ++i) { ... file.frames[i].texture ... }
ReleaseFrames(st, frames, i) ==
    IF i > Len(frames) THEN st
    ELSE ReleaseFrames(ReleaseTexture(st, frames[i]), frames, i + 1)

\* "Free file": switch (ext)
FreeFile(st, filename, file) ==
    IF ~Truthy(file) THEN st
    ELSE CASE Ext(filename) = ExtSpr ->
                ReleaseTexture(ReleaseFrames(st, Frames(file), 1), Texture(file))
           [] Ext(filename) = ExtPal ->
                ReleaseTexture(st, Texture(file))
           [] OTHER ->
                IF MatchesBlob(file)
                THEN [st EXCEPT !.revoked = Append(@, file)]   \* URL.revokeObjectURL(file)
                ELSE st

\* the slot of filename goes, and with it the callbacks handed to it
DropListeners(ls, filename) ==
    [n \in DOMAIN ls |->
        IF ls[n].filename = filename THEN [ls[n] EXCEPT !.dropped = TRUE] ELSE ls[n]]

\* a slip: the last statement, _lastAccessTime.delete(filename), is left out
RemoveEntryKeepingTime(st, filename) ==
    LET id    == MapGet(st.memory, filename)
        item  == st.heap[id]
        freed == FreeFile(st, filename, item.data)
        gone  == [freed EXCEPT
                    !.listeners = DropListeners(@, filename),
                    !.removed = Append(@, filename),
                    !.memory = MapDelete(@, filename)]
    IN  IF Pooled
        THEN [gone EXCEPT !.heap[id] = ItemReset(@),
                          !.pool = Append(@, id)]
        ELSE [gone EXCEPT !.heap[id] = FreshItem]

\* remove() from "var item = _memory.get(filename)" on, for a filename in memory
RemoveEntry(st, filename) ==
    LET id    == MapGet(st.memory, filename)
        item  == st.heap[id]
        freed == FreeFile(st, filename, item.data)
        gone  == [freed EXCEPT
                    !.listeners = DropListeners(@, filename),
                    !.removed = Append(@, filename),
                    !.memory = MapDelete(@, filename)]
    IN  IF Pooled
        THEN \* item.reset(); _memoryItemPool.push(item); _memory.delete(filename);
             \* _lastAccessTime.delete(filename)
             [gone EXCEPT !.heap[id] = ItemReset(@),
                          !.pool = Append(@, id),
                          !.lat[filename] = Absent]
        ELSE [gone EXCEPT !.heap[id] = FreshItem,    \* unreferenced from here on
                          !.lat[filename] = Absent]

\* a slip: the access time is deleted ahead of the "Not found ?" test
RemoveFromForgetFirst(st, filename) ==
    IF ~MapHas(st.memory, filename)
    THEN [st EXCEPT !.lat[filename] = Absent]
    ELSE RemoveEntry(st, filename)

\* remove(gl, filename)
RemoveFrom(st, filename) ==
    IF ~MapHas(st.memory, filename) THEN st ELSE RemoveEntry(st, filename)

remove(filename) ==
    LET st == RemoveFrom(Store, filename)
    IN  /\ Commit(st)
        \* _lastAccessTime.delete(filename), the last statement, throws when
        \* the identifier is unbound
        /\ last' = Call("remove", IF MapHas(_memory, filename) THEN "found" ELSE "absent",
                        MapHas(_memory, filename) /\ ~LastAccessBound, 0, st)
        /\ UNCHANGED <<variant, _lastCheckTick>>

---------------------------------------------------------------------------
(* clean(gl, now)                                                          *)

\* a slip: the interval is left out of the test
RateLimitedNoInterval(now) == _lastCheckTick > now

\* if (_lastCheckTick + _cleanUpInterval > now) return;
RateLimited(now) == _lastCheckTick + _cleanUpInterval > now

\* a slip: item.complete is not asked
ExpiredIgnoringComplete(st, e, tick) ==
    /\ st.lat[e.filename] # Absent
    /\ st.lat[e.filename] < tick

\* a slip: <= in place of <
ExpiredInclusive(st, e, tick) ==
    /\ ItemComplete(st.heap[e.item])
    /\ st.lat[e.filename] # Absent
    /\ st.lat[e.filename] <= tick

\* a slip: item.complete is negated
ExpiredWhilePending(st, e, tick) ==
    /\ ~ItemComplete(st.heap[e.item])
    /\ st.lat[e.filename] # Absent
    /\ st.lat[e.filename] < tick

\* a slip: a missing access time counts as 0, as in
\* "(_lastAccessTime.get(filename) || 0) < tick"
ExpiredAbsentAsZero(st, e, tick) ==
    /\ ItemComplete(st.heap[e.item])
    /\ (IF st.lat[e.filename] = Absent THEN 0 ELSE st.lat[e.filename]) < tick

\* item.complete && _lastAccessTime.get(filename) < tick
\* (undefined < tick is false)
Expired(st, e, tick) ==
    /\ ItemComplete(st.heap[e.item])
    /\ st.lat[e.filename] # Absent
    /\ st.lat[e.filename] < tick

\* the pooled module, first loop: keysToDelete
KeysToDelete(st, tick) ==
    LET hit == SelectSeq(st.memory, LAMBDA e : Expired(st, e, tick))
    IN  [i \in DOMAIN hit |-> hit[i].filename]

RECURSIVE RemoveAll(_, _, _)
\* the pooled module, second loop: remove(gl, keysToDelete[i])
RemoveAll(st, keysToDelete, i) ==
    IF i > Len(keysToDelete) THEN st
    ELSE RemoveAll(RemoveFrom(st, keysToDelete[i]), keysToDelete, i + 1)

RECURSIVE CleanLoopShifting(_, _, _, _)
\* a slip: the loop indexes the live list, as over an array that is spliced,
\* so the entry after a removed one moves under the index and is passed over
CleanLoopShifting(st, entries, i, tick) ==
    IF i > Len(st.memory) THEN st
    ELSE LET e == st.memory[i]
         IN  IF Expired(st, e, tick)
             THEN CleanLoopShifting(RemoveFrom(st, e.filename), entries, i + 1, tick)
             ELSE CleanLoopShifting(st, entries, i + 1, tick)

RECURSIVE CleanLoop(_, _, _, _)
\* the plain module: for (var [filename, item] of _memory) { if (...) remove(...) }
\* The Map iterator walks the entry list by position; a deleted entry leaves
\* its position empty, so the entries after it keep theirs and are visited.
CleanLoop(st, entries, i, tick) ==
    IF i > Len(entries) THEN st
    ELSE LET e == entries[i]
         IN  IF MapHas(st.memory, e.filename) /\ Expired(st, e, tick)
             THEN CleanLoop(RemoveFrom(st, e.filename), entries, i + 1, tick)
             ELSE CleanLoop(st, entries, i + 1, tick)

\* evaluating _lastAccessTime throws when the identifier is unbound: the
\* loop reaches it at the first complete item
CleanThrows(st) ==
    /\ ~LastAccessBound
    /\ \E i \in DOMAIN st.memory : ItemComplete(st.heap[st.memory[i].item])

\* the loops of clean(), for a call that is not rate limited and does not throw
Sweep(st, now) ==
    LET tick == now - _rememberTime
    IN  IF Pooled
        THEN RemoveAll(st, KeysToDelete(st, tick), 1)
        ELSE CleanLoop(st, st.memory, 1, tick)

clean(now) ==
    IF RateLimited(now)
    THEN /\ last' = Call("clean", "skipped", FALSE, now, Store)
         /\ UNCHANGED <<variant, _memory, _memoryItemPool, heap, _lastAccessTime,
                        _lastCheckTick, glTextures, glInvalid, listeners>>
    ELSE IF CleanThrows(Store)
    THEN /\ last' = Call("clean", "threw", TRUE, now, Store)
         /\ UNCHANGED <<variant, _memory, _memoryItemPool, heap, _lastAccessTime,
                        _lastCheckTick, glTextures, glInvalid, listeners>>
    ELSE LET st == Sweep(Store, now)
         IN  /\ Commit(st)
             /\ _lastCheckTick' = now
             /\ last' = Call("clean", "swept", FALSE, now, st)
             /\ UNCHANGED variant

---------------------------------------------------------------------------
(* search(regex) and updateAccessTime(filename, time)                      *)

\* search(regex) for a regex /<ext>$/: the filenames in memory that end
\* with ext, in the order of the Map
search(ext) ==
    LET hit == SelectSeq(_memory, LAMBDA e :
                    /\ Len(e.filename) >= Len(ext)
                    /\ SubSeq(e.filename, Len(e.filename) - Len(ext) + 1, Len(e.filename)) = ext)
    IN  [i \in DOMAIN hit |-> hit[i].filename]

\* exported by the plain module only
updateAccessTime(filename, time) ==
    /\ variant = "plain"
    /\ _lastAccessTime' = [_lastAccessTime EXCEPT ![filename] = time]
    /\ last' = Call("updateAccessTime", "set", FALSE, 0, Store)
    /\ UNCHANGED <<variant, _memory, _memoryItemPool, heap, _lastCheckTick,
                   glTextures, glInvalid, listeners>>

---------------------------------------------------------------------------
(* The cache after the module is loaded, and the calls its users make      *)

Init ==
    /\ variant \in Variants
    /\ _memory = <<>>
    /\ _memoryItemPool = <<>>
    /\ heap = [id \in ItemIds |-> FreshItem]
    /\ _lastAccessTime = [k \in Keys |-> Absent]
    /\ _lastCheckTick = 0
    /\ glTextures = Handles
    /\ glInvalid = FALSE
    /\ listeners = [n \in ListenerIds |-> NoListener]
    /\ last = [op |-> "init", result |-> "none", raised |-> FALSE, now |-> 0,
               removed |-> <<>>, released |-> <<>>, revoked |-> <<>>]

\* the calls made on the module, with their arguments drawn from `in`
Calls(in) ==
    \/ \E filename \in in.keys, cb \in in.callbacks, t \in in.dates :
          get(filename, cb[1], cb[2], t)
    \/ \E filename \in in.keys, data \in in.payloads, error \in BOOLEAN :
          set(filename, data, error)
    \/ \E now \in in.nows : clean(now)
    \/ \E filename \in in.keys : remove(filename)
    \/ \E filename \in in.keys, time \in in.dates : updateAccessTime(filename, time)

\* callbacks: one file; get() without callbacks, with both, with onload
\* alone; every outcome of set(); a clean() late enough for the access times,
\* whose repetition is rate limited
ListenInputs ==
    [keys |-> {ASpr}, payloads |-> {"null", "blob:x"},
     callbacks |-> {<<FALSE, FALSE>>, <<TRUE, TRUE>>, <<TRUE, FALSE>>},
     dates |-> {0}, nows |-> {MaxTick * _cleanUpInterval}]

SpecListen == Init /\ [][Calls(ListenInputs)]_vars

\* eviction by time: two files, no callbacks, every time of the grid
SweepInputs ==
    [keys |-> {ASpr, CDat}, payloads |-> {"null", "blob:x"},
     callbacks |-> {<<FALSE, FALSE>>},
     dates |-> DateTimes, nows |-> NowTimes]

SpecSweep == Init /\ [][Calls(SweepInputs)]_vars

\* release of textures: the two files whose extension releases textures,
\* payloads that share handles
ReleaseInputs ==
    [keys |-> {ASpr, BPal}, payloads |-> {"null", "sprite", "palette"},
     callbacks |-> {<<FALSE, FALSE>>},
     dates |-> {0}, nows |-> {0, MaxTick * _cleanUpInterval}]

SpecRelease == Init /\ [][Calls(ReleaseInputs)]_vars

\* one sprite file kept past its time: payloads with and without textures,
\* a first clean() at the interval and one after the remember time
ScenarioInputs ==
    [keys |-> {ASpr}, payloads |-> {"null", "sprite", "palette"},
     callbacks |-> {<<FALSE, FALSE>>},
     dates |-> {0}, nows |-> {_cleanUpInterval, _rememberTime + _cleanUpInterval}]

SpecScenario == Init /\ [][Calls(ScenarioInputs)]_vars

\* which keys have a slot: two files, one payload, one time of access and a
\* clean() late enough to remove what was accessed then
KeyInputs ==
    [keys |-> {ASpr, CDat}, payloads |-> {"null", "blob:x"},
     callbacks |-> {<<FALSE, FALSE>>},
     dates |-> {0}, nows |-> {MaxTick * _cleanUpInterval}]

SpecKeys == Init /\ [][Calls(KeyInputs)]_vars

\* recycling of slots, in the module that has the pool (lines 13-241): its
\* exported calls, on two files that take each other's slot, every get()
\* with callbacks, every set() with a payload
PoolCalls(in) ==
    \/ \E filename \in in.keys, cb \in in.callbacks, t \in in.dates :
          get(filename, cb[1], cb[2], t)
    \/ \E filename \in in.keys, data \in in.payloads : set(filename, data, FALSE)
    \/ \E now \in in.nows : clean(now)
    \/ \E filename \in in.keys : remove(filename)

PoolInputs ==
    [keys |-> {ASpr, CDat}, payloads |-> {"blob:x"},
     callbacks |-> {<<TRUE, TRUE>>},
     dates |-> {0}, nows |-> {MaxTick * _cleanUpInterval}]

\* the pooled module after it is loaded
InitPooled == Init /\ Pooled

SpecPool == InitPooled /\ [][PoolCalls(PoolInputs)]_vars

---------------------------------------------------------------------------
(* Properties                                                              *)

\* filename has a slot that set() has not resolved
PendingSlot(filename) ==
    MapHas(_memory, filename) /\ ~ItemComplete(heap[MapGet(_memory, filename)])

\* filename has a slot that set() has resolved
ResolvedSlot(filename) ==
    MapHas(_memory, filename) /\ ItemComplete(heap[MapGet(_memory, filename)])

\* callback n was handed to get(filename) while the slot was pending, and
\* the slot was not removed since
Registered(n, filename) ==
    /\ listeners[n].filename = filename
    /\ listeners[n].at = "Pending"
    /\ ~listeners[n].dropped

\* clean(gl, now) is not stopped by the rate limit
Due(now) == ~(now < _lastCheckTick + _cleanUpInterval)

\* C1: a set(k, payload, false) with a non-empty payload on a pending slot
\* calls every onload that get(k, ...) registered on it exactly once, with
\* that payload, and calls none of the onerror.
C1_LoadNotifiesEveryListener ==
    [][\A filename \in Keys, data \in Payloads :
          (last'.op = "set" /\ Truthy(data) /\ PendingSlot(filename)
             /\ set(filename, data, FALSE))
          => \A n \in ListenerIds : Registered(n, filename) =>
                /\ listeners'[n].load = (IF listeners[n].onload THEN 1 ELSE 0)
                /\ listeners[n].onload => listeners'[n].data = data
                /\ listeners'[n].error = 0]_vars

C1_Witness ==
    /\ last.op = "set"
    /\ \E n, m \in ListenerIds :
          /\ n # m
          /\ \A k \in {n, m} :
                /\ Registered(k, ASpr)
                /\ listeners[k].onload
                /\ listeners[k].load = 1
                /\ listeners[k].data = "blob:x"
                /\ listeners[k].error = 0

\* C2: a set(k, payload, errorFlag) with errorFlag true or an empty payload
\* on a pending slot calls every onerror registered on it exactly once and
\* none of the onload, and set() itself does not throw.
C2_ErrorNotifiesEveryListener ==
    [][\A filename \in Keys, data \in Payloads, error \in BOOLEAN :
          (last'.op = "set" /\ (error \/ ~Truthy(data)) /\ PendingSlot(filename)
             /\ set(filename, data, error))
          => /\ ~last'.raised
             /\ \A n \in ListenerIds : Registered(n, filename) =>
                   /\ listeners'[n].error = (IF listeners[n].onerror THEN 1 ELSE 0)
                   /\ listeners'[n].load = 0]_vars

C2_Witness ==
    /\ last.op = "set"
    /\ ~last.raised
    /\ \E n, m \in ListenerIds :
          /\ n # m
          /\ \A k \in {n, m} :
                /\ Registered(k, ASpr)
                /\ listeners[k].onerror
                /\ listeners[k].error = 1
                /\ listeners[k].load = 0

\* C3: a callback handed to get(k, ...) when k is already resolved is called
\* inside that get() with the stored outcome (onload with the payload of a
\* Loaded slot, onerror for an Error slot), and no later call invokes it again.
C3_LateListenerAnsweredInGet ==
    [][/\ \A filename \in Keys, onload \in BOOLEAN, onerror \in BOOLEAN, t \in DateTimes :
            (last'.op = "get" /\ (onload \/ onerror) /\ ResolvedSlot(filename)
               /\ get(filename, onload, onerror, t))
            => LET n    == NextListener
                   item == heap[MapGet(_memory, filename)]
               IN  /\ listeners'[n].load =
                         (IF onload /\ item.state = "Loaded" THEN 1 ELSE 0)
                   /\ listeners'[n].load = 1 => listeners'[n].data = item.data
                   /\ listeners'[n].error =
                         (IF onerror /\ item.state = "Error" THEN 1 ELSE 0)
       /\ \A n \in ListenerIds :
            listeners[n].at \in {"Loaded", "Error"}
            => /\ listeners'[n].load = listeners[n].load
               /\ listeners'[n].error = listeners[n].error]_vars

C3_Witness ==
    /\ last.op = "get"
    /\ \E n, m \in ListenerIds :
          /\ listeners[n].at = "Loaded"
          /\ listeners[n].load = 1
          /\ listeners[n].data = "blob:x"
          /\ listeners[n].error = 0
          /\ listeners[m].at = "Error"
          /\ listeners[m].error = 1
          /\ listeners[m].load = 0

\* C4: clean(gl, now) never removes a pending slot, for any now and however
\* old its access time: the slot is in memory after the call, still pending.
C4_CleanKeepsPending ==
    [][\A now \in NowTimes :
          (last'.op = "clean" /\ last'.now = now /\ clean(now)) => \A filename \in Keys :
              PendingSlot(filename) =>
                 /\ MapHas(_memory', filename)
                 /\ MapGet(_memory', filename) = MapGet(_memory, filename)
                 /\ ~ItemComplete(heap'[MapGet(_memory', filename)])]_vars

C4_Witness ==
    /\ last.op = "clean"
    /\ last.result = "swept"
    /\ \E filename \in Keys :
          /\ PendingSlot(filename)
          /\ _lastAccessTime[filename] # Absent
          /\ _lastAccessTime[filename] < last.now - _rememberTime

\* C5, as claimed: a clean(gl, now) that passes the rate limit removes
\* exactly the resolved slots with lastAccess <= now - _rememberTime.
C5_EvictsAtOrBeforeThreshold ==
    [][\A now \in NowTimes :
          (last'.op = "clean" /\ last'.now = now /\ Due(now) /\ clean(now))
          => MapKeys(_memory') =
                MapKeys(_memory) \ {k \in Keys :
                    /\ ResolvedSlot(k)
                    /\ _lastAccessTime[k] # Absent
                    /\ _lastAccessTime[k] <= now - _rememberTime}]_vars

\* C5, amended: a clean(gl, now) that passes the rate limit removes exactly
\* the resolved slots that have a recorded access time strictly before
\* now - _rememberTime; a slot accessed at now - _rememberTime stays.
C5_EvictsBeforeThreshold ==
    [][\A now \in NowTimes :
          (last'.op = "clean" /\ last'.now = now /\ Due(now) /\ clean(now))
          => MapKeys(_memory') =
                MapKeys(_memory) \ {k \in Keys :
                    /\ ResolvedSlot(k)
                    /\ _lastAccessTime[k] # Absent
                    /\ _lastAccessTime[k] < now - _rememberTime}]_vars

C5_Witness ==
    /\ last.op = "clean"
    /\ last.result = "swept"
    /\ last.removed # <<>>
    /\ \E filename \in Keys :
          /\ ResolvedSlot(filename)
          /\ _lastAccessTime[filename] = last.now - _rememberTime

\* C6: every filename in memory has an access time.
C6_EveryKeyHasAccessTime ==
    \A filename \in MapKeys(_memory) : _lastAccessTime[filename] # Absent

\* C7: every get(k) records the current time as the access time of k.
C7_GetRecordsAccess ==
    [][\A filename \in Keys, onload \in BOOLEAN, onerror \in BOOLEAN, t \in DateTimes :
          (last'.op = "get" /\ get(filename, onload, onerror, t))
          => _lastAccessTime'[filename] = t]_vars

\* C8: a clean(gl, now) with now < _lastCheckTick + _cleanUpInterval changes
\* nothing: memory, the slots, the access times, the pool, the textures and
\* _lastCheckTick are as before.
C8_CleanRateLimited ==
    [][\A now \in NowTimes :
          (last'.op = "clean" /\ last'.now = now /\ now < _lastCheckTick + _cleanUpInterval
             /\ clean(now))
          => /\ last'.removed = <<>>
             /\ last'.released = <<>>
             /\ last'.revoked = <<>>
             /\ UNCHANGED <<_memory, _memoryItemPool, heap, _lastAccessTime,
                            _lastCheckTick, glTextures>>]_vars

C8_Witness ==
    /\ last.op = "clean"
    /\ last.result = "skipped"
    /\ _lastCheckTick > 0
    /\ last.now >= _lastCheckTick
    /\ \E filename \in Keys :
          /\ ResolvedSlot(filename)
          /\ _lastAccessTime[filename] # Absent
          /\ _lastAccessTime[filename] < last.now - _rememberTime

\* C9: a clean() pass removes every filename that is eligible when it
\* starts (resolved, access time before now - _rememberTime), each once,
\* none passed over, and releases once what each removed slot holds.
C9_PassRemovesEachEligibleOnce ==
    [][\A now \in NowTimes :
          (last'.op = "clean" /\ last'.now = now /\ Due(now) /\ clean(now))
          => LET eligible == {k \in MapKeys(_memory) :
                                /\ ResolvedSlot(k)
                                /\ _lastAccessTime[k] # Absent
                                /\ _lastAccessTime[k] < now - _rememberTime}
                 blobs == {k \in eligible :
                                /\ Ext(k) \notin {ExtSpr, ExtPal}
                                /\ MatchesBlob(heap[MapGet(_memory, k)].data)}
             IN  /\ Range(last'.removed) = eligible
                 /\ Len(last'.removed) = Cardinality(eligible)
                 /\ \A k \in eligible : ~MapHas(_memory', k)
                 /\ Len(last'.revoked) = Cardinality(blobs)]_vars

C9_Witness ==
    /\ variant = "plain"
    /\ last.op = "clean"
    /\ Len(last.removed) = 2
    /\ last.revoked = <<"blob:x">>

\* C10: gl.deleteTexture is called only on a handle for which gl.isTexture
\* is true at that moment, and no call releases a handle twice.
C10_ReleaseOnlyLiveTextures ==
    /\ ~glInvalid
    /\ \A i, j \in DOMAIN last.released :
          last.released[i] = last.released[j] => i = j

C10_Witness ==
    /\ last.op \in {"remove", "clean"}
    /\ last.released = <<1, 2>>
    /\ \E i \in DOMAIN _memory : Texture(heap[_memory[i].item].data) = 2

\* a.spr is resolved with a payload whose only texture is file.texture, the
\* handle is live, and the access time of a.spr is 0
SpriteReady ==
    /\ ResolvedSlot(ASpr)
    /\ LET file == heap[MapGet(_memory, ASpr)].data
       IN  /\ Frames(file) = <<>>
           /\ Texture(file) # NoTexture
           /\ IsTexture(glTextures, Texture(file))
    /\ _lastAccessTime[ASpr] = 0

\* C11, as claimed: get("a.spr") at time 0 on the empty cache leaves the
\* slot pending with access time 0; set("a.spr", spriteWithTexture, false)
\* resolves it and keeps that time; from there clean(gl, 30000) removes and
\* releases nothing, and clean(gl, 150000) removes a.spr and calls
\* gl.deleteTexture exactly once, with the texture of the sprite.
C11_SpriteScenario ==
    [][/\ (last'.op = "get" /\ _memory = <<>> /\ glTextures = Handles
            /\ get(ASpr, FALSE, FALSE, 0))
          => /\ ~last'.raised
             /\ MapHas(_memory', ASpr)
             /\ ~ItemComplete(heap'[MapGet(_memory', ASpr)])
             /\ _lastAccessTime'[ASpr] = 0
             /\ glTextures' = Handles
       /\ \A data \in Payloads :
            (last'.op = "set" /\ Frames(data) = <<>> /\ Texture(data) # NoTexture
               /\ PendingSlot(ASpr) /\ _lastAccessTime[ASpr] = 0
               /\ IsTexture(glTextures, Texture(data))
               /\ set(ASpr, data, FALSE))
            => SpriteReady'
       /\ (last'.op = "clean" /\ last'.now = _cleanUpInterval
            /\ SpriteReady /\ _lastCheckTick = 0 /\ clean(_cleanUpInterval))
          => /\ ~last'.raised
             /\ last'.removed = <<>>
             /\ last'.released = <<>>
             /\ UNCHANGED <<_memory, _memoryItemPool, heap, _lastAccessTime, glTextures>>
       /\ (last'.op = "clean" /\ last'.now = _rememberTime + _cleanUpInterval
            /\ SpriteReady /\ _lastCheckTick \in {0, _cleanUpInterval}
            /\ clean(_rememberTime + _cleanUpInterval))
          => /\ ~last'.raised
             /\ ~MapHas(_memory', ASpr)
             /\ last'.removed = <<ASpr>>
             /\ last'.released = <<Texture(heap[MapGet(_memory, ASpr)].data)>>]_vars

\* C12: after remove(gl, k) on a k that has a slot, exist(k) is false and
\* _lastAccessTime has no entry for k, whether the slot was pending, loaded
\* or in error.
C12_RemoveForgetsKey ==
    [][\A filename \in Keys :
          (last'.op = "remove" /\ MapHas(_memory, filename) /\ remove(filename))
          => /\ ~exist(filename)'
             /\ _lastAccessTime'[filename] = Absent]_vars

C12_Witness ==
    /\ last.op = "remove"
    /\ last.removed = <<ASpr>>
    /\ ~exist(ASpr)
    /\ _lastAccessTime[ASpr] = Absent
    /\ exist(CDat)
    /\ _lastAccessTime[CDat] # Absent

\* C13: remove(gl, k) for a k that is not in memory changes nothing: memory,
\* the slots, the access times, the pool and the textures are as before,
\* nothing is released or revoked, and the call does not throw.
C13_RemoveAbsentIsNoOp ==
    [][\A filename \in Keys :
          (last'.op = "remove" /\ ~MapHas(_memory, filename) /\ remove(filename))
          => /\ ~last'.raised
             /\ last'.removed = <<>>
             /\ last'.released = <<>>
             /\ last'.revoked = <<>>
             /\ UNCHANGED <<_memory, _memoryItemPool, heap, _lastAccessTime,
                            _lastCheckTick, glTextures, listeners>>]_vars

C13_Witness ==
    /\ last.op = "remove"
    /\ last.result = "absent"
    /\ \E filename \in Keys :
          /\ ~exist(filename)
          /\ _lastAccessTime[filename] # Absent
    /\ \E filename \in Keys : ResolvedSlot(filename)

\* C14: exist(k) is true exactly when k has a slot, pending or resolved. It
\* is false for every k when nothing was passed to get or set; get(k) and
\* set(k) make it true for k, remove(k) makes it false for k, clean makes
\* it false for the keys it removes, and no call changes it for another key.
C14_ExistIffSlot ==
    /\ \A filename \in Keys : ~exist(filename)
    /\ [](\A filename \in Keys : exist(filename) <=> MapGet(_memory, filename) # NoItem)
    /\ [][/\ \A filename \in Keys :
              (/\ last'.op = "get"
               /\ \E onload, onerror \in BOOLEAN, t \in DateTimes :
                     get(filename, onload, onerror, t))
              => /\ exist(filename)'
                 /\ \A other \in Keys \ {filename} : exist(other)' = exist(other)
          /\ \A filename \in Keys :
              (/\ last'.op = "set"
               /\ \E data \in Payloads, error \in BOOLEAN : set(filename, data, error))
              => /\ exist(filename)'
                 /\ \A other \in Keys \ {filename} : exist(other)' = exist(other)
          /\ \A filename \in Keys :
              (last'.op = "remove" /\ remove(filename))
              => /\ ~exist(filename)'
                 /\ \A other \in Keys \ {filename} : exist(other)' = exist(other)
          /\ last'.op = "clean"
              => \A filename \in Keys :
                    exist(filename)' =
                        (exist(filename) /\ filename \notin Range(last'.removed))
          /\ last'.op = "updateAccessTime"
              => \A filename \in Keys : exist(filename)' = exist(filename)]_vars

C14_Witness ==
    /\ last.op = "clean"
    /\ last.removed = <<ASpr>>
    /\ ~exist(ASpr)
    /\ exist(CDat)
    /\ PendingSlot(CDat)
    /\ ~exist(BPal)

\* C15, as claimed: get(k) on a k that has no slot does not throw and
\* creates the slot: the payload it returns (item.data) is empty, k is in
\* memory and pending, and search() with the extension of k returns k.
C15_GetCreatesPendingSlot ==
    [][\A filename \in Keys, onload \in BOOLEAN, onerror \in BOOLEAN, t \in DateTimes :
          (last'.op = "get" /\ ~MapHas(_memory, filename)
             /\ get(filename, onload, onerror, t))
          => /\ ~last'.raised
             /\ exist(filename)'
             /\ ~ItemComplete(heap'[MapGet(_memory', filename)])
             /\ ~Truthy(heap'[MapGet(_memory', filename)].data)
             /\ filename \in Range(search(Ext(filename))')]_vars

LoaderCalls(in) ==
    \/ \E filename \in in.keys, cb \in in.callbacks, t \in in.dates :
          get(filename, cb[1], cb[2], t)
    \/ \E filename \in in.keys, data \in in.payloads, error \in BOOLEAN :
          PendingSlot(filename) /\ set(filename, data, error)
    \/ \E now \in in.nows : clean(now)
    \/ \E filename \in in.keys, time \in in.dates : updateAccessTime(filename, time)

LoaderInputs ==
    [keys |-> {ASpr}, payloads |-> {"null", "blob:x"},
     callbacks |-> {<<FALSE, FALSE>>, <<TRUE, TRUE>>, <<TRUE, FALSE>>},
     dates |-> {0}, nows |-> {MaxTick * _cleanUpInterval}]

SpecLoader ==
    /\ Init
    /\ [][LoaderCalls(LoaderInputs)]_vars
    /\ \A filename \in LoaderInputs.keys :
          WF_vars(\E data \in LoaderInputs.payloads, error \in BOOLEAN :
                     PendingSlot(filename) /\ set(filename, data, error))

\* callback n has had the answer of its slot: one of its callbacks was
\* called, or the slot was resolved with the outcome it gave no callback for
Notified(n) ==
    \/ listeners[n].load + listeners[n].error = 1
    \/ /\ ~(listeners[n].onload /\ listeners[n].onerror)
       /\ listeners[n].dropped \/ ResolvedSlot(listeners[n].filename)

\* C17: when slots leave memory through clean() only and the loader calls
\* set() for every requested key, clean() never removes a slot that still
\* holds waiting callbacks, and every callback handed to get() on a pending
\* slot is called in the end, at the resolution of its key.
C17_NoListenerLost ==
    /\ [][last'.op = "clean" =>
             /\ \A filename \in Range(last'.removed) :
                   /\ heap[MapGet(_memory, filename)].onload = <<>>
                   /\ heap[MapGet(_memory, filename)].onerror = <<>>
             /\ \A n \in ListenerIds :
                   (listeners'[n].dropped /\ ~listeners[n].dropped)
                   => ResolvedSlot(listeners[n].filename)]_vars
    /\ \A n \in ListenerIds : (listeners[n].at = "Pending") ~> Notified(n)

C17_Witness ==
    /\ last.op = "clean"
    /\ last.removed = <<ASpr>>
    /\ \E n, m \in ListenerIds :
          /\ n # m
          /\ \A k \in {n, m} :
                /\ listeners[k].filename = ASpr
                /\ listeners[k].at = "Pending"
                /\ listeners[k].dropped
                /\ listeners[k].load + listeners[k].error = 1

\* the callbacks that wait in the slot of the i-th entry of memory
Waiting(i) ==
    Range(heap[_memory[i].item].onload) \cup Range(heap[_memory[i].item].onerror)

\* C18: no MemoryItem is at once in the pool and in memory, none is the
\* slot of two filenames or twice in the pool, and an item in the pool is
\* reset; the callbacks that wait in a slot were handed to get() for its
\* filename since the slot was created. A get(k) that creates the slot of k
\* from the pool leaves it pending, without payload, and no call invokes a
\* callback whose slot was removed, nor does set(k) one of another filename.
C18_PoolKeepsSlotsApart ==
    /\ [](/\ \A i, j \in DOMAIN _memory : _memory[i].item = _memory[j].item => i = j
          /\ \A i, j \in DOMAIN _memoryItemPool :
                _memoryItemPool[i] = _memoryItemPool[j] => i = j
          /\ \A i \in DOMAIN _memory : _memory[i].item \notin Range(_memoryItemPool)
          /\ \A id \in Range(_memoryItemPool) : heap[id] = FreshItem
          /\ \A i \in DOMAIN _memory : \A n \in Waiting(i) :
                /\ listeners[n].filename = _memory[i].filename
                /\ ~listeners[n].dropped)
    /\ [][/\ \A n \in ListenerIds :
              listeners[n].dropped =>
                 /\ listeners'[n].load = listeners[n].load
                 /\ listeners'[n].error = listeners[n].error
          /\ \A filename \in Keys, onload \in BOOLEAN, onerror \in BOOLEAN, t \in DateTimes :
              (last'.op = "get" /\ Pooled /\ ~MapHas(_memory, filename)
                 /\ Len(_memoryItemPool) > 0
                 /\ get(filename, onload, onerror, t))
              => LET id == _memoryItemPool[Len(_memoryItemPool)]
                 IN  /\ MapGet(_memory', filename) = id
                     /\ _memoryItemPool' = SubSeq(_memoryItemPool, 1, Len(_memoryItemPool) - 1)
                     /\ heap'[id].state = "Pending"
                     /\ ~Truthy(heap'[id].data)
                     /\ Range(heap'[id].onload) \cup Range(heap'[id].onerror)
                           \subseteq {n \in ListenerIds : listeners[n] = NoListener}
          /\ \A filename \in Keys, data \in Payloads, error \in BOOLEAN :
              (last'.op = "set" /\ set(filename, data, error))
              => \A n \in ListenerIds :
                    listeners[n].filename # filename =>
                       /\ listeners'[n].load = listeners[n].load
                       /\ listeners'[n].error = listeners[n].error]_vars

C18_Witness ==
    /\ Pooled
    /\ last.op = "set"
    /\ _memoryItemPool = <<>>
    /\ Len(_memory) = 1
    /\ _memory[1].filename = CDat
    /\ \E n, m \in ListenerIds :
          /\ listeners[n].filename = ASpr
          /\ listeners[n].at = "Pending"
          /\ listeners[n].dropped
          /\ listeners[n].load + listeners[n].error = 0
          /\ listeners[m].filename = CDat
          /\ ~listeners[m].dropped
          /\ listeners[m].load = 1

C20_AccessTimeOnlyForSlots ==
    \A filename \in Keys :
        _lastAccessTime[filename] # Absent => MapHas(_memory, filename)

====
